---------------------------- MODULE Spec2Model ----------------------------
(***************************************************************************)
(* A model of the data loader (src/covid19/data.py) and of the chart data  *)
(* preparation (src/simulator/pages/utils/viz.py).                         *)
(*                                                                         *)
(* Every function of the two files is a transformation of tables.  A call  *)
(* is one action: it starts in the idle state, draws its inputs (and, for  *)
(* the loader, the content of the remote dataset) from bounded sets and    *)
(* leaves the outcome (the exception raised or the value returned) in the  *)
(* state.                                                                  *)
(*                                                                         *)
(* Text values (region names, column labels) are sequences of code points, *)
(* so that slicing, splitting, joining and ordering are computed the way   *)
(* Python computes them.  Column names used to address a column of a table *)
(* (df['newCases'], df[by]) are record fields.  Dates are day ordinals.    *)
(* A float cell is <<>> (NaN) or <<v>>; an integer cell is the integer.    *)
(***************************************************************************)
EXTENDS Integers, Sequences, FiniteSets, TLC

VARIABLES pc,       \* "idle" before the call, "done" after it
          call,     \* the function called
          args,     \* its inputs (for load_cases: with the dataset served)
          raised,   \* "none", or the exception the call ended with
          ret,      \* the value returned (<<>> when the call raised)
          fetched,  \* the remote datasets read during the call, in order
          frame     \* the caller's table after the call (in-place effects)

vars == <<pc, call, args, raised, ret, fetched, frame>>

--------------------------------------------------------------------------
(* Bounds of the model *)

\* The most rows a remote dataset holds.
MaxRows == 2

\* The most rows the population file holds, and the largest population.
MaxPopRows == 3

MaxPop == 2

\* The most rows and the most columns of an array handed to the chart
\* builder, and the most rows of a long table.
MaxDim == 2

MaxLongRows == 3

\* The most rows of a table handed to a chart function.
MaxChartRows == 2

--------------------------------------------------------------------------
(* Text: sequences of code points *)

\* The spelling of the identifiers that end up as labels of a column index.
Label ==
    [newCases   |-> <<110, 101, 119, 67, 97, 115, 101, 115>>,
     totalCases |-> <<116, 111, 116, 97, 108, 67, 97, 115, 101, 115>>]

NaN == <<>>

\* s.startswith(p)
StartsWith(s, p) == Len(s) >= Len(p) /\ SubSeq(s, 1, Len(p)) = p

\* s[n:]
StrFrom(s, n) == SubSeq(s, n + 1, Len(s))

\* a < b on str: lexicographic on code points
StrLess(a, b) ==
    \E i \in 1..(Len(a) + 1) :
        /\ i <= Len(b)
        /\ \A j \in 1..(i - 1) : a[j] = b[j]
        /\ (i = Len(a) + 1 \/ a[i] < b[i])

\* s.rsplit(sep, 1) for a one-character sep: split at the last occurrence
RSplit1(s, sep) ==
    LET hits == {i \in 1..Len(s) : s[i] = sep}
    IN  IF hits = {} THEN <<s>>
        ELSE LET k == CHOOSE i \in hits : \A j \in hits : j <= i
             IN  <<SubSeq(s, 1, k - 1), SubSeq(s, k + 1, Len(s))>>

\* sep.join(parts)
RECURSIVE StrJoin(_, _)
StrJoin(sep, parts) ==
    IF Len(parts) = 0 THEN <<>>
    ELSE IF Len(parts) = 1 THEN parts[1]
    ELSE parts[1] \o sep \o StrJoin(sep, Tail(parts))

--------------------------------------------------------------------------
(* Sequences and sorting *)

RECURSIVE SeqSum(_)
SeqSum(s) == IF s = <<>> THEN 0 ELSE s[1] + SeqSum(Tail(s))

\* A finite set of integers as an ascending sequence.
SortInts(S) ==
    [i \in 1..Cardinality(S) |->
        CHOOSE x \in S : Cardinality({y \in S : y < x}) = i - 1]

\* A finite set of texts as an ascending sequence.
SortStrs(S) ==
    [i \in 1..Cardinality(S) |->
        CHOOSE x \in S : Cardinality({y \in S : StrLess(y, x)}) = i - 1]

\* The positions of s in ascending order of the values at them (stable).
SortPerm(s) ==
    LET Before(i, j) == s[i] < s[j] \/ (s[i] = s[j] /\ i < j)
    IN  [i \in 1..Len(s) |->
            CHOOSE x \in 1..Len(s) :
                Cardinality({y \in 1..Len(s) : Before(y, x)}) = i - 1]

--------------------------------------------------------------------------
(* Tables *)

Range(f) == {f[x] : x \in DOMAIN f}

SeqsUpTo(S, n) == UNION {[1..k -> S] : k \in 0..n}

\* None in a text column: not a sequence of code points.
None == <<-1>>

\* df.rename(columns=m), on one row
RenameRow(row, m) ==
    LET NewName(c) == IF c \in DOMAIN m THEN m[c] ELSE c
    IN  [n \in {NewName(c) : c \in DOMAIN row} |->
            row[CHOOSE c \in DOMAIN row : NewName(c) = n]]

Rename(df, m) == [i \in 1..Len(df) |-> RenameRow(df[i], m)]

\* df.assign(col=values), values given per row
Assign(df, col, values) ==
    [i \in 1..Len(df) |->
        [c \in DOMAIN df[i] \cup {col} |->
            IF c = col THEN values[i] ELSE df[i][c]]]

\* df.dropna(subset=[col])
DropNa(df, col) == SelectSeq(df, LAMBDA r : r[col] # None)

\* df.replace({col: m})
Replace(df, col, m) ==
    [i \in 1..Len(df) |->
        [c \in DOMAIN df[i] |->
            IF c = col /\ df[i][c] \in DOMAIN m THEN m[df[i][c]]
            ELSE df[i][c]]]

\* df.groupby([by])[col].cumsum(): the running sum, in row order, over the
\* rows of the same group
GroupCumSum(df, by, col) ==
    [i \in 1..Len(df) |->
        SeqSum([k \in 1..i |->
                   IF df[k][by] = df[i][by] THEN df[k][col] ELSE 0])]

\* The order of the group keys (date, region) of a sorted groupby.
KeyLess(a, b) == a[1] < b[1] \/ (a[1] = b[1] /\ StrLess(a[2], b[2]))

SortKeys(S) ==
    [i \in 1..Cardinality(S) |->
        CHOOSE x \in S : Cardinality({y \in S : KeyLess(y, x)}) = i - 1]

\* A slip of GroupBySum: .max() for .sum(), the largest row of each group.
GroupByMax(df, by, cols) ==
    LET index == SortKeys({<<df[i].date, df[i][by]>> : i \in 1..Len(df)})
    IN  [index   |-> index,
         columns |-> cols,
         data    |-> [p \in 1..Len(index) |->
                        [j \in 1..Len(cols) |->
                            LET vs == {df[i][cols[j]] : i \in
                                        {k \in 1..Len(df) :
                                           <<df[k].date, df[k][by]>> = index[p]}}
                            IN  CHOOSE v \in vs : \A w \in vs : w <= v]]]

\* df.groupby(['date', by])[cols].sum(): one row per (date, region) present,
\* keys ascending
GroupBySum(df, by, cols) ==
    LET index == SortKeys({<<df[i].date, df[i][by]>> : i \in 1..Len(df)})
    IN  [index   |-> index,
         columns |-> cols,
         data    |-> [p \in 1..Len(index) |->
                        [j \in 1..Len(cols) |->
                            SeqSum([i \in 1..Len(df) |->
                                IF <<df[i].date, df[i][by]>> = index[p]
                                THEN df[i][cols[j]] ELSE 0])]]]

\* .unstack(by): the region level of the row index becomes the inner level
\* of the columns; a (date, region) pair without a row is NaN
Unstack(g) ==
    LET index   == SortInts({k[1] : k \in Range(g.index)})
        regions == SortStrs({k[2] : k \in Range(g.index)})
        R       == Len(regions)
        columns == [n \in 1..(Len(g.columns) * R) |->
                       <<Label[g.columns[((n - 1) \div R) + 1]],
                         regions[((n - 1) % R) + 1]>>]
        Cell(i, n) ==
            LET key  == <<index[i], regions[((n - 1) % R) + 1]>>
                hits == {p \in 1..Len(g.index) : g.index[p] = key}
            IN  IF hits = {} THEN NaN
                ELSE <<g.data[CHOOSE p \in hits : TRUE][((n - 1) \div R) + 1]>>
    IN  [index   |-> index,
         columns |-> columns,
         data    |-> [i \in 1..Len(index) |->
                        [n \in 1..Len(columns) |-> Cell(i, n)]]]

\* .sort_index(): rows in ascending order of the index
SortIndex(t) ==
    LET perm == SortPerm(t.index)
    IN  [index   |-> [i \in 1..Len(t.index) |-> t.index[perm[i]]],
         columns |-> t.columns,
         data    |-> [i \in 1..Len(t.index) |-> t.data[perm[i]]]]

\* A slip of SwapLevel: the call left out, the labels stay (measure, region).
SwapLevelOmitted(t) == t

\* .swaplevel(axis=1): the two levels of every column label change places
SwapLevel(t) ==
    [index   |-> t.index,
     columns |-> [n \in 1..Len(t.columns) |->
                     <<t.columns[n][2], t.columns[n][1]>>],
     data    |-> t.data]

\* .fillna(v)
FillNa(t, v) ==
    [index   |-> t.index,
     columns |-> t.columns,
     data    |-> [i \in 1..Len(t.index) |->
                    [n \in 1..Len(t.columns) |->
                        IF t.data[i][n] = NaN THEN <<v>> ELSE t.data[i][n]]]]

HasNaN(t) ==
    \E i \in 1..Len(t.index) : \E n \in 1..Len(t.columns) : t.data[i][n] = NaN

\* .astype(int), which raises on a NaN
AsTypeInt(t) ==
    [index   |-> t.index,
     columns |-> t.columns,
     data    |-> [i \in 1..Len(t.index) |->
                    [n \in 1..Len(t.columns) |-> t.data[i][n][1]]]]

--------------------------------------------------------------------------
(* src/covid19/data.py: load_cases *)

COVID_19_BY_CITY_URL == "wcota/covid19br/master/cases-brazil-cities-time.csv"

COVID_SAUDE_URL == "3778/COVID-19/master/data/latest_cases_ms.csv"

FIOCRUZ_URL == "bigdata-covid19.icict.fiocruz.br/sd/dados_casos.csv"

\* Text constants of the code and of the sample datasets
BR_MARK == <<35, 66, 82>>                          \* '#BR'

MUN_MARK == <<35, 77, 117, 110, 32, 66, 82>>       \* '#Mun BR'

SPACE == 32

SLASH == <<47>>

TOTAL == <<84, 79, 84, 65, 76>>                    \* 'TOTAL'

Acre == <<65, 99, 114, 101>>

Bahia == <<66, 97, 104, 105, 97>>

AC == <<65, 67>>

BA == <<66, 65>>

RioBrancoAC == <<82, 105, 111, 32, 66, 114, 97, 110, 99, 111, 47, 65, 67>>

SalvadorBA == <<83, 97, 108, 118, 97, 100, 111, 114, 47, 66, 65>>

\* covid19.utils.state2initial: the name of a state to its two-letter code
state2initial == (Acre :> AC) @@ (Bahia :> BA)

\* def _fix_city_name(city)
FixCityName(city) == StrJoin(SLASH, RSplit1(city, SPACE))

prepare_fiocruz_data(df, by) ==
    IF by = "state" THEN
        Replace(
            DropNa(
                Assign(df, "state",
                       [i \in 1..Len(df) |->
                           IF StartsWith(df[i].name, BR_MARK)
                           THEN StrFrom(df[i].name, 5) ELSE None]),
                "state"),
            "state", state2initial)
    ELSE IF by = "city" THEN
        LET marked == DropNa(
                          Assign(df, "city",
                                 [i \in 1..Len(df) |->
                                     IF StartsWith(df[i].name, MUN_MARK)
                                     THEN StrFrom(df[i].name, 9) ELSE None]),
                          "city")
        IN  Assign(marked, "city",
                   [i \in 1..Len(marked) |-> FixCityName(marked[i].city)])
    ELSE None

\* A slip of AssertSource: the list of sources without its last entry.
AssertSourceShort(source) == source \in {"ms", "wcota"}

\* assert source in ['ms', 'wcota', 'fiocruz']
AssertSource(source) == source \in {"ms", "wcota", "fiocruz"}

\* assert by in ['state', 'city']
AssertBy(by) == by \in {"state", "city"}

\* if source == 'ms': assert by == 'state'
AssertMsByState(by, source) == source = "ms" => by = "state"

\* The dataset read by each branch.
UrlOf(source) ==
    CASE source = "ms"      -> COVID_SAUDE_URL
      [] source = "wcota"   -> COVID_19_BY_CITY_URL
      [] source = "fiocruz" -> FIOCRUZ_URL

\* The long table of each branch, as it reaches the final groupby.
Normalized(by, source, csv) ==
    CASE source = "ms" ->
            Rename(csv, [casosNovos      |-> "newCases",
                         casosAcumulados |-> "totalCases",
                         estado          |-> "state"])
      [] source = "wcota" ->
            SelectSeq(csv, LAMBDA r : r.state # TOTAL)
      [] source = "fiocruz" ->
            LET df == prepare_fiocruz_data(
                          Rename(csv, [new_cases |-> "newCases"]), by)
            IN  Assign(df, "totalCases", GroupCumSum(df, by, "newCases"))

\* The chain of the return statement up to .fillna(0)
Pivoted(df, by) ==
    FillNa(
        SwapLevel(
            SortIndex(
                Unstack(
                    GroupBySum(df, by, <<"newCases", "totalCases">>)))),
        0)

load_cases(by, source, csv) ==
    IF ~AssertSource(source) \/ ~AssertBy(by) \/ ~AssertMsByState(by, source)
    THEN [raised |-> "AssertionError", fetched |-> <<>>, value |-> <<>>]
    ELSE LET t == Pivoted(Normalized(by, source, csv), by)
         IN  IF HasNaN(t)
             THEN [raised  |-> "ValueError",
                   fetched |-> <<UrlOf(source)>>,
                   value   |-> <<>>]
             ELSE [raised  |-> "none",
                   fetched |-> <<UrlOf(source)>>,
                   value   |-> AsTypeInt(t)]

\* What the caller may pass, and what the remote files may hold.
ByArgs == {"state", "city", "county"}

SourceArgs == {"ms", "wcota", "fiocruz", "jhu"}

\* Sample values of the datasets' date and count columns.
Dates == {1, 2}

Counts == {0, 1}

FiocruzNames ==
    {BR_MARK \o <<58, 32>> \o Acre,                     \* '#BR: Acre'
     BR_MARK \o <<58, 32>> \o Bahia,                    \* '#BR: Bahia'
     MUN_MARK \o <<58, 32, 73, 112, 117, 32, 67, 69>>,  \* '#Mun BR: Ipu CE'
     MUN_MARK \o <<58, 32, 82, 105, 111, 32, 66, 114, 97, 110, 99, 111,
                   32, 65, 67>>}                 \* '#Mun BR: Rio Branco AC'

FiocruzRows == [date : Dates, name : FiocruzNames, new_cases : Counts]

WcotaPlaces ==
    {[state |-> AC, city |-> RioBrancoAC],
     [state |-> BA, city |-> SalvadorBA],
     [state |-> TOTAL, city |-> TOTAL]}

WcotaRows ==
    {[date |-> d, state |-> p.state, city |-> p.city,
      newCases |-> n, totalCases |-> t] :
        d \in Dates, p \in WcotaPlaces, n \in Counts, t \in Counts}

MsRows ==
    [date : Dates, estado : {AC, BA},
     casosNovos : Counts, casosAcumulados : Counts]

Served(source) ==
    CASE source = "ms"      -> SeqsUpTo(MsRows, MaxRows)
      [] source = "wcota"   -> SeqsUpTo(WcotaRows, MaxRows)
      [] source = "fiocruz" -> SeqsUpTo(FiocruzRows, MaxRows)
      [] OTHER              -> {<<>>}

LoadCases(by, source, csv) ==
    /\ pc = "idle"
    /\ pc' = "done"
    /\ call' = "load_cases"
    /\ LET out == load_cases(by, source, csv)
       IN  /\ raised' = out.raised
           /\ fetched' = out.fetched
           /\ ret' = out.value
           /\ args' = [by |-> by, source |-> source,
                       csv |-> IF out.fetched = <<>> THEN <<>> ELSE csv]
    /\ frame' = <<>>

--------------------------------------------------------------------------
(* src/covid19/data.py: load_population *)

IBGE_POPULATION_PATH == "data/ibge_population.csv"

RN == <<82, 78>>

SE == <<83, 69>>

Areia == <<65, 114, 101, 105, 97>>

AreiaBranca == <<65, 114, 101, 105, 97, 32, 66, 114, 97, 110, 99, 97>>

\* A slip of CityKey: the city name left as it is.
CityKeyBare(city, state) == city

\* df.city + '/' + df.state
CityKey(city, state) == city \o SLASH \o state

\* .groupby(by)[col].sum(): one entry per key, keys ascending
GroupBySumSeries(df, by, col) ==
    LET index == SortStrs({df[i][by] : i \in 1..Len(df)})
    IN  [index  |-> index,
         values |-> [p \in 1..Len(index) |->
                       SeqSum([i \in 1..Len(df) |->
                                  IF df[i][by] = index[p]
                                  THEN df[i][col] ELSE 0])]]

\* The positions of a sequence of texts in ascending order (stable).
SortPermStrs(s) ==
    LET Before(i, j) == StrLess(s[i], s[j]) \/ (s[i] = s[j] /\ i < j)
    IN  [i \in 1..Len(s) |->
            CHOOSE x \in 1..Len(s) :
                Cardinality({y \in 1..Len(s) : Before(y, x)}) = i - 1]

\* Series.sort_index()
SortIndexSeries(g) ==
    LET perm == SortPermStrs(g.index)
    IN  [index  |-> [i \in 1..Len(g.index) |-> g.index[perm[i]]],
         values |-> [i \in 1..Len(g.index) |-> g.values[perm[i]]]]

load_population(by, csv) ==
    IF ~AssertBy(by)
    THEN [raised |-> "AssertionError", value |-> <<>>]
    ELSE LET renamed == Rename(csv, [uf |-> "state"])
             keyed   == Assign(renamed, "city",
                               [i \in 1..Len(renamed) |->
                                   CityKey(renamed[i].city,
                                           renamed[i].state)])
         IN  [raised |-> "none",
              value  |-> SortIndexSeries(
                             GroupBySumSeries(keyed, by,
                                              "estimated_population"))]

\* What the population file may hold.
PopulationRows ==
    [uf : {RN, SE}, city : {Areia, AreiaBranca},
     estimated_population : 1..MaxPop]

LoadPopulation(by, csv) ==
    /\ pc = "idle"
    /\ pc' = "done"
    /\ call' = "load_population"
    /\ args' = [by |-> by, csv |-> csv]
    /\ LET out == load_population(by, csv)
       IN  raised' = out.raised /\ ret' = out.value
    /\ fetched' = <<>>
    /\ frame' = <<>>

--------------------------------------------------------------------------
(* Numbers of the chart builder.  A float is NaN or the exact value          *)
(* q + s * sqrt(v) with q, v rational (a reduced pair <<numerator,           *)
(* denominator>>) and s in {-1, 0, 1}; v is no square of a rational unless   *)
(* s = 0.  That is closed under what the code computes: means, standard      *)
(* deviations and mean +/- std.                                              *)

Abs(n) == IF n < 0 THEN -n ELSE n

RECURSIVE GCD(_, _)
GCD(a, b) == IF b = 0 THEN a ELSE GCD(b, a % b)

\* n / d, reduced (d > 0)
Norm(n, d) ==
    LET g == GCD(Abs(n), d)
    IN  <<n \div g, d \div g>>

QAdd(a, b) == Norm(a[1] * b[2] + b[1] * a[2], a[2] * b[2])

Q(q) == [nan |-> FALSE, q |-> q, s |-> 0, v |-> <<0, 1>>]

Flt(n) == Q(<<n, 1>>)

NaNf == [nan |-> TRUE, q |-> <<0, 1>>, s |-> 0, v |-> <<0, 1>>]

IsSquare(n) == \E k \in 0..n : k * k = n

ISqrt(n) == CHOOSE k \in 0..n : k * k = n

\* The square root of a rational q >= 0
Sqrt(q) ==
    IF IsSquare(q[1]) /\ IsSquare(q[2])
    THEN Q(<<ISqrt(q[1]), ISqrt(q[2])>>)
    ELSE [nan |-> FALSE, q |-> <<0, 1>>, s |-> 1, v |-> q]

Neg(a) ==
    IF a.nan THEN a ELSE [a EXCEPT !.q = <<-a.q[1], a.q[2]>>, !.s = -a.s]

\* a + b, where at most one of the two has a radical part
Add(a, b) ==
    CASE a.nan \/ b.nan -> NaNf
      [] ~(a.nan \/ b.nan) /\ b.s = 0 -> [a EXCEPT !.q = QAdd(a.q, b.q)]
      [] ~(a.nan \/ b.nan) /\ b.s # 0 /\ a.s = 0 ->
             [b EXCEPT !.q = QAdd(a.q, b.q)]

Sub(a, b) == Add(a, Neg(b))

\* The sign of a float that is no NaN: -1, 0 or 1
Sign(a) ==
    LET sq == IF a.q[1] < 0 THEN -1 ELSE IF a.q[1] = 0 THEN 0 ELSE 1
        \* v compared with q * q
        big == a.v[1] * a.q[2] * a.q[2] > a.q[1] * a.q[1] * a.v[2]
    IN  IF a.s = 0 THEN sq
        ELSE IF sq = 0 \/ sq = a.s THEN a.s
        ELSE IF big THEN a.s ELSE sq

\* np.mean of a non-empty sequence of integers
Mean(xs) == Q(Norm(SeqSum(xs), Len(xs)))

\* The sample standard deviation (ddof=1) pandas computes for np.std in
\* .agg: NaN for a single value
Std(xs) ==
    LET n  == Len(xs)
        s1 == SeqSum(xs)
        s2 == SeqSum([i \in 1..n |-> xs[i] * xs[i]])
    IN  IF n < 2 THEN NaNf
        ELSE Sqrt(Norm(n * s2 - s1 * s1, n * (n - 1)))

--------------------------------------------------------------------------
(* src/simulator/pages/utils/viz.py: tables of the chart builder.  A table  *)
(* is [index, columns, data]: the row labels, the column labels and the     *)
(* rows, each a sequence of cells in the order of the columns.              *)

plot_params ==
    [exposto   |-> [name |-> "Exposto", color |-> "#1f77b4"],
     infectado |-> [name |-> "Infectado", color |-> "#ff7f0e"]]

ColPos(t, name) == CHOOSE n \in 1..Len(t.columns) : t.columns[n] = name

Column(t, name) == [p \in 1..Len(t.data) |-> t.data[p][ColPos(t, name)]]

RangeIndex(n) == [p \in 1..n |-> p - 1]

HasDuplicates(s) == \E i, j \in 1..Len(s) : i < j /\ s[i] = s[j]

\* pd.DataFrame(arr, index=t_space): the rows of arr labelled by t_space,
\* the columns numbered from 0
DataFrame(arr, t_space) ==
    [index   |-> t_space,
     columns |-> RangeIndex(Len(arr[1])),
     data    |-> arr]

\* DataFrame.unstack().reset_index(): one row (column label, row label,
\* value) per cell, column by column
UnstackResetIndex(df) ==
    LET R == Len(df.index)
        C == Len(df.columns)
    IN  [index   |-> RangeIndex(R * C),
         columns |-> <<"level_0", "level_1", "0">>,
         data    |-> [n \in 1..(R * C) |->
                        LET c == ((n - 1) \div R) + 1
                            r == ((n - 1) % R) + 1
                        IN  <<df.columns[c], df.index[r], df.data[r][c]>>]]

\* .rename(columns=m)
RenameColumns(t, m) ==
    [t EXCEPT !.columns =
        [n \in 1..Len(t.columns) |->
            IF t.columns[n] \in DOMAIN m THEN m[t.columns[n]]
            ELSE t.columns[n]]]

\* A slip of unstack_iterations_ndarray: the array read with the iterations
\* as its rows, its transpose labelled by t_space.
UnstackIterationsTransposed(arr, t_space, name) ==
    IF Len(t_space) # Len(arr[1])
    THEN [raised |-> "ValueError", value |-> <<>>]
    ELSE [raised |-> "none",
          value  |->
              RenameColumns(
                  UnstackResetIndex(
                      DataFrame([r \in 1..Len(arr[1]) |->
                                    [c \in 1..Len(arr) |-> arr[c][r]]],
                                t_space)),
                  ("0" :> name)
                      @@ [level_0 |-> "iteration", level_1 |-> "Dias"])]

\* pd.DataFrame(arr, index=t_space) raises unless t_space has one label per
\* row of arr
unstack_iterations_ndarray(arr, t_space, name) ==
    IF Len(t_space) # Len(arr)
    THEN [raised |-> "ValueError", value |-> <<>>]
    ELSE [raised |-> "none",
          value  |->
              RenameColumns(
                  UnstackResetIndex(DataFrame(arr, t_space)),
                  ("0" :> name)
                      @@ [level_0 |-> "iteration", level_1 |-> "Dias"])]

\* df.groupby(key).agg({variable: [np.mean, np.std]}): one row per distinct
\* key, keys ascending
GroupByAgg(df, key, variable) ==
    LET index == SortInts(Range(Column(df, key)))
        Rows(k) == SelectSeq(df.data, LAMBDA row : row[ColPos(df, key)] = k)
        Vals(k) == [i \in 1..Len(Rows(k)) |->
                       Rows(k)[i][ColPos(df, variable)]]
    IN  [index   |-> index,
         columns |-> <<<<variable, "mean">>, <<variable, "std">>>>,
         data    |-> [p \in 1..Len(index) |->
                        <<Mean(Vals(index[p])), Std(Vals(index[p]))>>]]

\* def droplevel_col_index(df)
droplevel_col_index(t) ==
    [t EXCEPT !.columns = [n \in 1..Len(t.columns) |-> t.columns[n][2]]]

\* .assign(name=values): a new last column
AssignColumn(t, name, values) ==
    [t EXCEPT !.columns = Append(t.columns, name),
              !.data = [p \in 1..Len(t.data) |->
                           Append(t.data[p], values[p])]]

\* .add_prefix(prefix)
AddPrefix(t, prefix) ==
    [t EXCEPT !.columns = [n \in 1..Len(t.columns) |->
                              prefix \o t.columns[n]]]

\* A slip of Upper: the band's upper bound taken below the mean.
UpperBelow(mean, std) == Sub(mean, std)

\* df["mean"] + df["std"]
Upper(mean, std) == Add(mean, std)

\* df["mean"] - df["std"]
Lower(mean, std) == Sub(mean, std)

\* A slip of compute_mean_and_boundaries: the groupby left out, one output
\* row per input row.
ComputeUngrouped(df, variable) ==
    IF variable \notin Range(df.columns)
    THEN [raised |-> "ValueError", value |-> <<>>]
    ELSE [raised |-> "none",
          value  |->
              [index   |-> Column(df, "Dias"),
               columns |-> [n \in 1..4 |->
                               variable \o "_"
                                 \o <<"mean", "std", "upper", "lower">>[n]],
               data    |-> [p \in 1..Len(df.data) |->
                              LET x == Flt(df.data[p][ColPos(df, variable)])
                              IN  <<x, NaNf, NaNf, NaNf>>]]]

compute_mean_and_boundaries(df, variable) ==
    IF variable \notin Range(df.columns)
    THEN [raised |-> "ValueError", value |-> <<>>]
    ELSE LET agg   == droplevel_col_index(GroupByAgg(df, "Dias", variable))
             upper == AssignColumn(agg, "upper",
                          [p \in 1..Len(agg.data) |->
                              Upper(Column(agg, "mean")[p],
                                    Column(agg, "std")[p])])
             lower == AssignColumn(upper, "lower",
                          [p \in 1..Len(upper.data) |->
                              Lower(Column(upper, "mean")[p],
                                    Column(upper, "std")[p])])
         IN  [raised |-> "none", value |-> AddPrefix(lower, variable \o "_")]

\* left.merge(right, how="left", left_index=True, right_index=True,
\* validate="1:1"): raises unless the keys are unique on both sides
Merge(left, right) ==
    IF HasDuplicates(left.index) \/ HasDuplicates(right.index)
    THEN [raised |-> "MergeError", value |-> <<>>]
    ELSE [raised |-> "none",
          value  |->
              [index   |-> left.index,
               columns |-> left.columns \o right.columns,
               data    |-> [p \in 1..Len(left.index) |->
                              LET hits == {r \in 1..Len(right.index) :
                                             right.index[r] = left.index[p]}
                              IN  left.data[p] \o
                                    (IF hits = {}
                                     THEN [n \in 1..Len(right.columns) |->
                                              NaNf]
                                     ELSE right.data[CHOOSE r \in hits :
                                                        TRUE])]]]

\* .reset_index(): the row labels become the first column
ResetIndex(t, name) ==
    [index   |-> RangeIndex(Len(t.index)),
     columns |-> <<name>> \o t.columns,
     data    |-> [p \in 1..Len(t.index) |-> <<t.index[p]>> \o t.data[p]]]

prep_tidy_data_to_plot(E, I, t_space, start_date) ==
    LET df_E == unstack_iterations_ndarray(E, t_space,
                                           plot_params.exposto.name)
        df_I == unstack_iterations_ndarray(I, t_space,
                                           plot_params.infectado.name)
    IN  IF df_E.raised # "none" THEN df_E
        ELSE IF df_I.raised # "none" THEN df_I
        ELSE
          LET agg_df_E == compute_mean_and_boundaries(
                              df_E.value, plot_params.exposto.name)
              agg_df_I == compute_mean_and_boundaries(
                              df_I.value, plot_params.infectado.name)
          IN  IF agg_df_E.raised # "none" THEN agg_df_E
              ELSE IF agg_df_I.raised # "none" THEN agg_df_I
              ELSE
                LET merged == Merge(agg_df_E.value, agg_df_I.value)
                IN  IF merged.raised # "none" THEN merged
                    ELSE
                      LET data == ResetIndex(merged.value, "Dias")
                      IN  [raised |-> "none",
                           value  |->
                               AssignColumn(data, "Datas",
                                   [p \in 1..Len(data.data) |->
                                       start_date + Column(data, "Dias")[p]])]

\* Sample inputs of the chart builder
ArrValues == {0, 1}

TimeSteps == {0, 1}

LongValues == {0, 1, 2}

Arrays(R, C) == [1..R -> [1..C -> ArrValues]]

\* An ordinal of a start date
START_DATE == 737500

UnstackIterations(arr, t_space, name) ==
    /\ pc = "idle"
    /\ pc' = "done"
    /\ call' = "unstack_iterations_ndarray"
    /\ args' = [arr |-> arr, t_space |-> t_space, name |-> name]
    /\ LET out == unstack_iterations_ndarray(arr, t_space, name)
       IN  raised' = out.raised /\ ret' = out.value
    /\ fetched' = <<>>
    /\ frame' = <<>>

ComputeMeanAndBoundaries(df, variable) ==
    /\ pc = "idle"
    /\ pc' = "done"
    /\ call' = "compute_mean_and_boundaries"
    /\ args' = [df |-> df, variable |-> variable]
    /\ LET out == compute_mean_and_boundaries(df, variable)
       IN  raised' = out.raised /\ ret' = out.value
    /\ fetched' = <<>>
    /\ frame' = <<>>

PrepTidyDataToPlot(E, I, t_space, start_date) ==
    /\ pc = "idle"
    /\ pc' = "done"
    /\ call' = "prep_tidy_data_to_plot"
    /\ args' = [E |-> E, I |-> I, t_space |-> t_space,
                start_date |-> start_date]
    /\ LET out == prep_tidy_data_to_plot(E, I, t_space, start_date)
       IN  raised' = out.raised /\ ret' = out.value
    /\ fetched' = <<>>
    /\ frame' = <<>>

--------------------------------------------------------------------------
(* src/simulator/pages/utils/viz.py: chart functions *)

\* The largest integer not above a float that is no NaN
Floor(x) ==
    LET B == Abs(x.q[1]) + x.v[1] + 1
    IN  CHOOSE k \in (-B)..B :
            /\ Sign(Sub(x, Flt(k))) >= 0
            /\ Sign(Sub(x, Flt(k + 1))) < 0

\* np.round(x, 0): to the nearest integer, a half to the even one
RoundHalfEven(x) ==
    IF x.nan THEN x
    ELSE LET f    == Floor(x)
             half == Sign(Sub(Sub(x, Flt(f)), Q(<<1, 2>>)))
         IN  IF half < 0 THEN Flt(f)
             ELSE IF half > 0 THEN Flt(f + 1)
             ELSE IF f % 2 = 0 THEN Flt(f) ELSE Flt(f + 1)

\* df.round({col: 0 for col in cols}): names that are no column are ignored
Round(t, cols) ==
    [t EXCEPT !.data =
        [p \in 1..Len(t.data) |->
            [n \in 1..Len(t.columns) |->
                IF t.columns[n] \in cols THEN RoundHalfEven(t.data[p][n])
                ELSE t.data[p][n]]]]

\* Texts numpy reads as the name of a numeric dtype (a sample of them).
NumericDtypeNames == {"int", "float", "int64", "float64"}

\* pandas.api.types.is_numeric_dtype, applied to a column label (a str)
is_numeric_dtype(col) == col \in NumericDtypeNames

\* df[cols]
SelectColumns(t, cols) ==
    [index   |-> t.index,
     columns |-> cols,
     data    |-> [p \in 1..Len(t.data) |->
                    [n \in 1..Len(cols) |-> t.data[p][ColPos(t, cols[n])]]]]

\* t <= 0, cell by cell (False for NaN)
LessEqualZero(t) ==
    [t EXCEPT !.data =
        [p \in 1..Len(t.data) |->
            [n \in 1..Len(t.columns) |->
                ~t.data[p][n].nan /\ Sign(t.data[p][n]) <= 0]]]

\* df[mask] for a boolean table: df.where(mask), a new table that keeps the
\* cells the mask marks and holds NaN elsewhere
Where(t, mask) ==
    [t EXCEPT !.data =
        [p \in 1..Len(t.data) |->
            [n \in 1..Len(t.columns) |->
                IF /\ t.columns[n] \in Range(mask.columns)
                   /\ mask.data[p][ColPos(mask, t.columns[n])]
                THEN t.data[p][n] ELSE NaNf]]]

\* t[cols] = value
SetColumns(t, cols, value) ==
    [t EXCEPT !.data =
        [p \in 1..Len(t.data) |->
            [n \in 1..Len(t.columns) |->
                IF t.columns[n] \in Range(cols) THEN value
                ELSE t.data[p][n]]]]

\* A repair of treat_negative_values_to_plot: the non-positive cells of the
\* columns of numbers replaced by 1.0 in df itself.
TreatInPlace(df) ==
    LET clamped ==
            [df EXCEPT !.data =
                [p \in 1..Len(df.data) |->
                    [n \in 1..Len(df.columns) |->
                        IF /\ df.columns[n] # "Datas"
                           /\ ~df.data[p][n].nan
                           /\ Sign(df.data[p][n]) <= 0
                        THEN Flt(1) ELSE df.data[p][n]]]]
    IN  [value |-> clamped, df |-> clamped, temp |-> clamped]

\* def _treat_negative_values_to_plot(df): df[mask] is a new table, the
\* assignment writes to that table, and df is returned.  value is the table
\* returned, df the caller's table after the call, temp the table written to.
treat_negative_values_to_plot(df) ==
    LET numeric_columns == SelectSeq(df.columns, is_numeric_dtype)
        mask == LessEqualZero(SelectColumns(df, numeric_columns))
        temp == SetColumns(Where(df, mask), numeric_columns, Flt(1))
    IN  [value |-> df, df |-> df, temp |-> temp]

make_exposed_infected_error_area_chart(data, variable, color, scale) ==
    LET treated == treat_negative_values_to_plot(data)
        treated_source ==
            Round(treated.value, {variable \o "_lower", variable \o "_upper"})
    IN  [treated |-> treated,
         chart   |-> [data             |-> treated_source,
                      transform_filter |-> <<variable \o "_lower", ">", 0>>,
                      mark_area        |-> color,
                      x                |-> "Datas",
                      y                |-> variable \o "_upper",
                      y2               |-> variable \o "_lower",
                      scale            |-> scale]]

\* seq[-m:] for m >= 0
LastRows(seq, m) ==
    IF m = 0 \/ m >= Len(seq) THEN seq
    ELSE SubSeq(seq, Len(seq) - m + 1, Len(seq))

\* pd.date_range(end=date, periods=n)
DateRange(date, n) == [d \in 1..n |-> date - n + d]

\* pd.DataFrame(arr, columns=columns).stack(level=0).reset_index(): one row
\* (row label, column label, value) per cell, row by row
StackResetIndex(arr, columns) ==
    LET R == Len(arr)
        C == Len(columns)
    IN  [index   |-> RangeIndex(R * C),
         columns |-> <<"level_0", "level_1", "0">>,
         data    |-> [n \in 1..(R * C) |->
                        LET r == ((n - 1) \div C) + 1
                            c == ((n - 1) % C) + 1
                        IN  <<r - 1, columns[c], arr[r][c]>>]]

plot_r0(r0_samples, date, place, min_days) ==
    LET r0_samples_cut == LastRows(r0_samples, min_days)
        columns == DateRange(date, Len(r0_samples_cut[1]))
        data == SelectColumns(
                    RenameColumns(StackResetIndex(r0_samples_cut, columns),
                                  ("0" :> "r0") @@ [level_1 |-> "Dias"]),
                    <<"Dias", "r0">>)
    IN  [data   |-> data,
         place  |-> place,
         layers |-> <<[mark |-> "errorband", x |-> "Dias", y |-> "r0"],
                      [mark |-> "line", x |-> "Dias", y |-> "mean(r0)"]>>]

\* Sample tables of the shape the chart functions get: a date column and the
\* columns of a band; one sample has a column whose label names a dtype.
BandValues ==
    {Flt(0), Q(<<5, 2>>), Sub(Q(<<1, 2>>), Sqrt(<<1, 2>>)), NaNf}

BandColumns ==
    {<<"Datas", "Exposto_lower", "Exposto_upper">>,
     <<"Datas", "float", "Exposto_upper">>}

BandTables ==
    {[index   |-> RangeIndex(Len(rows)),
      columns |-> cols,
      data    |-> [p \in 1..Len(rows) |->
                     <<START_DATE + p - 1, rows[p][1], rows[p][2]>>]] :
        cols \in BandColumns,
        rows \in SeqsUpTo(BandValues \X BandValues, MaxChartRows)}

TreatNegativeValuesToPlot(df) ==
    /\ pc = "idle"
    /\ pc' = "done"
    /\ call' = "_treat_negative_values_to_plot"
    /\ args' = [df |-> df]
    /\ raised' = "none"
    /\ LET out == treat_negative_values_to_plot(df)
       IN  /\ ret' = out.value
           /\ frame' = [df |-> out.df, treated |-> out.value,
                        temp |-> out.temp]
    /\ fetched' = <<>>

MakeExposedInfectedErrorAreaChart(data, variable, color, scale) ==
    /\ pc = "idle"
    /\ pc' = "done"
    /\ call' = "make_exposed_infected_error_area_chart"
    /\ args' = [data |-> data, variable |-> variable, color |-> color,
                scale |-> scale]
    /\ raised' = "none"
    /\ LET out == make_exposed_infected_error_area_chart(data, variable,
                                                         color, scale)
       IN  /\ ret' = out.chart
           /\ frame' = [df |-> out.treated.df, treated |-> out.treated.value,
                        temp |-> out.treated.temp]
    /\ fetched' = <<>>

PlotR0(r0_samples, date, place, min_days) ==
    /\ pc = "idle"
    /\ pc' = "done"
    /\ call' = "plot_r0"
    /\ args' = [r0_samples |-> r0_samples, date |-> date, place |-> place,
                min_days |-> min_days]
    /\ raised' = "none"
    /\ ret' = plot_r0(r0_samples, date, place, min_days)
    /\ fetched' = <<>>
    /\ frame' = <<>>

--------------------------------------------------------------------------
(* Specifications *)

Init ==
    /\ pc = "idle"
    /\ call = "none"
    /\ args = <<>>
    /\ raised = "none"
    /\ ret = <<>>
    /\ fetched = <<>>
    /\ frame = <<>>

NextCases ==
    /\ pc = "idle"
    /\ \E by \in ByArgs, source \in SourceArgs :
           \E csv \in Served(source) : LoadCases(by, source, csv)

SpecCases == Init /\ [][NextCases]_vars

NextPopulation ==
    /\ pc = "idle"
    /\ \E by \in ByArgs :
           \E csv \in SeqsUpTo(PopulationRows, MaxPopRows) :
               LoadPopulation(by, csv)

SpecPopulation == Init /\ [][NextPopulation]_vars

\* Arrays of every shape up to MaxDim x MaxDim, with a t_space of every
\* length up to MaxDim.
NextUnstack ==
    /\ pc = "idle"
    /\ \E R \in 1..MaxDim, C \in 1..MaxDim :
           \E arr \in Arrays(R, C) :
               \E t_space \in SeqsUpTo(0..(MaxDim - 1), MaxDim) \ {<<>>} :
                   UnstackIterations(arr, t_space, "Exposto")

SpecUnstack == Init /\ [][NextUnstack]_vars

\* Long tables of the shape unstack_iterations_ndarray returns.
LongTables ==
    {[index   |-> RangeIndex(Len(rows)),
      columns |-> <<"iteration", "Dias", "Exposto">>,
      data    |-> rows] :
        rows \in SeqsUpTo({0} \X TimeSteps \X LongValues, MaxLongRows)}

NextBands ==
    /\ pc = "idle"
    /\ \E df \in LongTables, variable \in {"Exposto", "Infectado"} :
           ComputeMeanAndBoundaries(df, variable)

SpecBands == Init /\ [][NextBands]_vars

\* The arrays of one simulation: as many rows as t_space has time-steps,
\* one column per run.
NextPrep ==
    /\ pc = "idle"
    /\ \E T \in 1..MaxDim :
           \E E \in Arrays(T, 2), I \in Arrays(T, 2),
              t_space \in [1..T -> TimeSteps] :
               PrepTidyDataToPlot(E, I, t_space, START_DATE)

SpecPrep == Init /\ [][NextPrep]_vars

CallTreat ==
    /\ pc = "idle"
    /\ \E df \in BandTables : TreatNegativeValuesToPlot(df)

CallErrorAreaChart ==
    /\ pc = "idle"
    /\ \E data \in BandTables, scale \in {"log", "linear"} :
           MakeExposedInfectedErrorAreaChart(
               data, plot_params.exposto.name,
               plot_params.exposto.color, scale)

CallPlotR0 ==
    /\ pc = "idle"
    /\ \E S \in 1..MaxDim, D \in 1..MaxDim :
           \E r0_samples \in Arrays(S, D), min_days \in 1..MaxDim :
               PlotR0(r0_samples, START_DATE, "Brasil", min_days)

NextCharts == CallTreat \/ CallErrorAreaChart \/ CallPlotR0

SpecCharts == Init /\ [][NextCharts]_vars
--------------------------------------------------------------------------
(* Claims about load_cases *)

Done(f) == pc = "done" /\ call = f

Returned(f) == Done(f) /\ raised = "none"

Measures == {Label.newCases, Label.totalCases}

\* The long table the returned table is built from.
LongRows == Normalized(args.by, args.source, args.csv)

RegionsOf(df) == {df[i][args.by] : i \in 1..Len(df)}

\* The cell of row i in the column labelled with the measure and the region,
\* whichever level holds which.
CellAt(t, i, measure, region) ==
    LET n == CHOOSE k \in 1..Len(t.columns) :
                 {t.columns[k][1], t.columns[k][2]} = {measure, region}
    IN  t.data[i][n]

HasColumn(t, measure, region) ==
    \E k \in 1..Len(t.columns) :
        {t.columns[k][1], t.columns[k][2]} = {measure, region}

DateOrdered(df) ==
    \A i, j \in 1..Len(df) : i < j => df[i].date <= df[j].date

\* C1 (as claimed): in the table load_cases returns for source='fiocruz',
\* every region's totalCases is non-decreasing down the rows (ascending
\* date).  Stated on the datasets most favourable to it: rows in date order
\* and non-negative daily counts.
C1_TotalCasesNonDecreasing ==
    (Returned("load_cases") /\ args.source = "fiocruz"
        /\ DateOrdered(args.csv)) =>
        \A r \in RegionsOf(LongRows) :
            \A i, j \in 1..Len(ret.index) :
                i < j => CellAt(ret, i, Label.totalCases, r)
                            <= CellAt(ret, j, Label.totalCases, r)

\* C2 (as claimed): the outer level of the returned column index holds the
\* measures, exactly {newCases, totalCases}, and the inner level the region
\* keys.
C2_OuterLevelIsMeasure ==
    Returned("load_cases") =>
        \A n \in 1..Len(ret.columns) :
            /\ ret.columns[n][1] \in Measures
            /\ ret.columns[n][2] \in RegionsOf(LongRows)

\* C2 (amended): the outer level of the returned column index holds the
\* region keys and the inner level the measures: the labels are exactly the
\* pairs (region, measure) of a region of the long table and a measure of
\* {newCases, totalCases}.
C2_OuterLevelIsRegion ==
    Returned("load_cases") =>
        Range(ret.columns) = RegionsOf(LongRows) \X Measures

C2_Witness ==
    /\ Returned("load_cases")
    /\ Cardinality(RegionsOf(LongRows)) = 2
    /\ Len(ret.columns) = 4

\* C3: load_cases ends with an AssertionError, having read no remote
\* dataset, exactly when source is not one of ms, wcota, fiocruz, or by is
\* not one of state, city, or by is city with source ms.
C3_AssertsBeforeFetch ==
    Done("load_cases") =>
        /\ raised = "AssertionError" <=>
              \/ args.source \notin {"ms", "wcota", "fiocruz"}
              \/ args.by \notin {"state", "city"}
              \/ (args.by = "city" /\ args.source = "ms")
        /\ raised = "AssertionError" => fetched = <<>>
        /\ raised # "AssertionError" => Len(fetched) = 1

C3_Witness ==
    /\ Done("load_cases")
    /\ args.by = "city" /\ args.source = "ms"
    /\ raised = "AssertionError" /\ fetched = <<>>

\* The sum of a measure over the rows of df with the date and the region.
SumWhere(df, by, col, date, region) ==
    SeqSum([i \in 1..Len(df) |->
               IF df[i].date = date /\ df[i][by] = region
               THEN df[i][col] ELSE 0])

\* C4: the returned table has one row per distinct date of the long table,
\* in strictly ascending order, and each newCases and totalCases cell is the
\* sum of the measure over the long table's rows of that date and region
\* (0 when there is none).
C4_RowsAndSums ==
    Returned("load_cases") =>
        /\ Range(ret.index) = {LongRows[i].date : i \in 1..Len(LongRows)}
        /\ \A i, j \in 1..Len(ret.index) :
              i < j => ret.index[i] < ret.index[j]
        /\ \A i \in 1..Len(ret.index) :
              \A r \in RegionsOf(LongRows) :
                  \A c \in {"newCases", "totalCases"} :
                      /\ HasColumn(ret, Label[c], r)
                      /\ CellAt(ret, i, Label[c], r)
                            = SumWhere(LongRows, args.by, c,
                                       ret.index[i], r)

\* Two rows in descending date order, of two regions: the rows are sorted
\* and the two missing (date, region) pairs are filled.
C4_Witness ==
    /\ Returned("load_cases")
    /\ Len(LongRows) = 2
    /\ LongRows[1].date > LongRows[2].date
    /\ LongRows[1][args.by] # LongRows[2][args.by]
    /\ LongRows[1].newCases = 1
    /\ ret.index = <<LongRows[2].date, LongRows[1].date>>
    /\ CellAt(ret, 1, Label.newCases, LongRows[1][args.by]) = 0

--------------------------------------------------------------------------
(* Claims about load_population *)

\* The region key of a row of the population file.
PopKey(r) ==
    IF args.by = "state" THEN r.uf ELSE r.city \o <<47>> \o r.uf

\* C9: for by in {state, city} and positive populations, load_population
\* returns each region key (the state code, or "city/state") exactly once,
\* keys strictly ascending, each with the sum of estimated_population over
\* the rows of that key, which is strictly positive.
C9_PopulationByKey ==
    (Done("load_population") /\ args.by \in {"state", "city"}) =>
        /\ raised = "none"
        /\ Range(ret.index) = {PopKey(args.csv[i]) : i \in 1..Len(args.csv)}
        /\ \A i, j \in 1..Len(ret.index) :
              i < j => StrLess(ret.index[i], ret.index[j])
        /\ \A p \in 1..Len(ret.index) :
              /\ ret.values[p] =
                    SeqSum([i \in 1..Len(args.csv) |->
                               IF PopKey(args.csv[i]) = ret.index[p]
                               THEN args.csv[i].estimated_population
                               ELSE 0])
              /\ ret.values[p] > 0

\* Three rows, two of one city: the sum of two rows, and composite keys whose
\* order ('Areia Branca/..' before 'Areia/..') is not that of the city names.
C9_Witness ==
    /\ Returned("load_population")
    /\ args.by = "city"
    /\ Len(args.csv) = 3
    /\ Len(ret.index) = 2
    /\ StartsWith(ret.index[1], AreiaBranca)
    /\ ret.values[2] = 3

--------------------------------------------------------------------------
(* Claims about the chart builder's tables *)

Cell(t, p, name) == t.data[p][ColPos(t, name)]

\* C5 (as claimed): for an array with N iterations as rows and T time-steps
\* as columns and a t_space of T time-steps, unstack_iterations_ndarray
\* returns N x T rows, one per (i, t), holding i, t_space[t] and arr[i][t].
C5_IterationsAsRows ==
    (Done("unstack_iterations_ndarray")
        /\ Len(args.t_space) = Len(args.arr[1])) =>
        /\ raised = "none"
        /\ Len(ret.data) = Len(args.arr) * Len(args.arr[1])
        /\ \A i \in 1..Len(args.arr) : \A t \in 1..Len(args.arr[1]) :
              \E p \in 1..Len(ret.data) :
                  /\ Cell(ret, p, "iteration") = i - 1
                  /\ Cell(ret, p, "Dias") = args.t_space[t]
                  /\ Cell(ret, p, args.name) = args.arr[i][t]

\* C5 (amended): for an array with T time-steps as rows and N iterations as
\* columns and a t_space of T time-steps, unstack_iterations_ndarray
\* returns exactly N x T rows, one per (i, t), iteration by iteration,
\* holding i, t_space[t] and arr[t][i].
C5_TimeStepsAsRows ==
    (Done("unstack_iterations_ndarray")
        /\ Len(args.t_space) = Len(args.arr)) =>
        LET T == Len(args.arr)
            N == Len(args.arr[1])
        IN  /\ raised = "none"
            /\ ret.columns = <<"iteration", "Dias", args.name>>
            /\ Len(ret.data) = N * T
            /\ \A i \in 1..N : \A t \in 1..T :
                  ret.data[(i - 1) * T + t]
                      = <<i - 1, args.t_space[t], args.arr[t][i]>>

C5_Witness ==
    /\ Returned("unstack_iterations_ndarray")
    /\ Len(args.arr) = 2 /\ Len(args.arr[1]) = 2
    /\ args.arr[1][2] # args.arr[2][1]
    /\ args.t_space = <<0, 1>>
    /\ Len(ret.data) = 4
    /\ ret.data[2] = <<0, 1, args.arr[2][1]>>

\* The values of the variable in the rows of df with the time-step k.
ValuesAt(df, variable, k) ==
    LET at == SelectSeq([p \in 1..Len(df.data) |-> p],
                        LAMBDA p : Cell(df, p, "Dias") = k)
    IN  [n \in 1..Len(at) |-> Cell(df, at[n], variable)]

\* C7: for a df that has the variable column, compute_mean_and_boundaries
\* returns one row per distinct Dias of df, and in each row <variable>_upper
\* is <variable>_mean + <variable>_std and <variable>_lower is
\* <variable>_mean - <variable>_std, mean and std being those of the rows of
\* df with that Dias.
C7_MeanAndBoundaries ==
    (Done("compute_mean_and_boundaries")
        /\ args.variable \in Range(args.df.columns)) =>
        LET v == args.variable
        IN  /\ raised = "none"
            /\ Range(ret.index) = Range(Column(args.df, "Dias"))
            /\ ~HasDuplicates(ret.index)
            /\ \A p \in 1..Len(ret.index) :
                  LET xs == ValuesAt(args.df, v, ret.index[p])
                  IN  /\ Cell(ret, p, v \o "_mean") = Mean(xs)
                      /\ Cell(ret, p, v \o "_std") = Std(xs)
                      /\ Cell(ret, p, v \o "_upper")
                            = Add(Cell(ret, p, v \o "_mean"),
                                  Cell(ret, p, v \o "_std"))
                      /\ Cell(ret, p, v \o "_lower")
                            = Add(Cell(ret, p, v \o "_mean"),
                                  Neg(Cell(ret, p, v \o "_std")))

\* Two time-steps, one of them with an irrational standard deviation.
C7_Witness ==
    /\ Returned("compute_mean_and_boundaries")
    /\ Len(ret.index) = 2
    /\ \E p \in 1..2 :
          /\ Cell(ret, p, "Exposto_std").s = 1
          /\ Cell(ret, p, "Exposto_upper").s = 1
          /\ Cell(ret, p, "Exposto_lower").s = -1
          /\ Cell(ret, p, "Exposto_mean").q # <<0, 1>>

\* The mean and the sample standard deviation of the cells of arr in the
\* rows whose time-step is k, from their sums.
CellsAt(arr, t_space, k) ==
    {<<t, n>> : t \in {u \in 1..Len(arr) : t_space[u] = k},
                n \in 1..Len(arr[1])}

SumAt(arr, t_space, k, power) ==
    SeqSum([t \in 1..Len(arr) |->
               IF t_space[t] = k
               THEN SeqSum([n \in 1..Len(arr[t]) |->
                               IF power = 2 THEN arr[t][n] * arr[t][n]
                               ELSE arr[t][n]])
               ELSE 0])

MeanAt(arr, t_space, k) ==
    Q(Norm(SumAt(arr, t_space, k, 1),
           Cardinality(CellsAt(arr, t_space, k))))

StdAt(arr, t_space, k) ==
    LET n == Cardinality(CellsAt(arr, t_space, k))
    IN  IF n < 2 THEN NaNf
        ELSE Sqrt(Norm(n * SumAt(arr, t_space, k, 2)
                         - SumAt(arr, t_space, k, 1)
                             * SumAt(arr, t_space, k, 1),
                       n * (n - 1)))

BandAt(t, p, variable, arr, t_space, k) ==
    /\ Cell(t, p, variable \o "_mean") = MeanAt(arr, t_space, k)
    /\ Cell(t, p, variable \o "_std") = StdAt(arr, t_space, k)
    /\ Cell(t, p, variable \o "_upper")
          = Add(MeanAt(arr, t_space, k), StdAt(arr, t_space, k))
    /\ Cell(t, p, variable \o "_lower")
          = Add(MeanAt(arr, t_space, k), Neg(StdAt(arr, t_space, k)))

\* C8: prep_tidy_data_to_plot returns one row per distinct time-step of
\* t_space, each with the exposed and the infected aggregates of that
\* time-step and Datas = start_date + time-step; the 1:1 validation of the
\* merge raises when a time-step occurs twice on a side of the join, which
\* the grouping by time-step rules out, so that the call never raises.
C8_OneRowPerTimeStep ==
    Done("prep_tidy_data_to_plot") =>
        /\ raised = "none"
        /\ Range(Column(ret, "Dias")) = Range(args.t_space)
        /\ ~HasDuplicates(Column(ret, "Dias"))
        /\ \A p \in 1..Len(ret.data) :
              LET k == Cell(ret, p, "Dias")
              IN  /\ BandAt(ret, p, "Exposto", args.E, args.t_space, k)
                  /\ BandAt(ret, p, "Infectado", args.I, args.t_space, k)
                  /\ Cell(ret, p, "Datas") = args.start_date + k

\* Two time-steps, given in descending order, whose aggregates differ
\* between the two arrays and between the two rows.
C8_Witness ==
    /\ Returned("prep_tidy_data_to_plot")
    /\ args.t_space = <<1, 0>>
    /\ Len(ret.data) = 2
    /\ Column(ret, "Datas") = <<args.start_date, args.start_date + 1>>
    /\ Cell(ret, 1, "Exposto_mean") # Cell(ret, 1, "Infectado_mean")
    /\ Cell(ret, 1, "Exposto_mean") # Cell(ret, 2, "Exposto_mean")

--------------------------------------------------------------------------
(* Claims about the chart functions *)

\* C6 (as claimed): plot_r0 builds its chart data from the last min_days
\* per-day columns of r0_samples only: the data has exactly min_days
\* distinct dates, the last of them date, and holds every sample of those
\* columns and none of the earlier ones.
C6_LastMinDaysColumns ==
    (Returned("plot_r0")
        /\ args.min_days <= Len(args.r0_samples[1])) =>
        LET S == Len(args.r0_samples)
            D == Len(args.r0_samples[1])
            m == args.min_days
        IN  /\ Range(Column(ret.data, "Dias"))
                  = (args.date - m + 1)..args.date
            /\ \A i \in 1..S : \A d \in (D - m + 1)..D :
                  \E p \in 1..Len(ret.data.data) :
                      ret.data.data[p]
                          = <<args.date - (D - d), args.r0_samples[i][d]>>

NonPositive(x) == ~x.nan /\ Sign(x) <= 0

HasNonPositive(t) ==
    \E p \in 1..Len(t.data) : \E n \in 2..Len(t.columns) :
        NonPositive(t.data[p][n])

\* C10: _treat_negative_values_to_plot leaves every cell as it is: the table
\* returned and the caller's table hold the values of the input, none
\* replaced by 1.0, and the table make_exposed_infected_error_area_chart
\* goes on to round is the one it was given.
C10_TreatChangesNothing ==
    /\ Done("_treat_negative_values_to_plot") =>
          ret = args.df /\ frame.df = args.df
    /\ Done("make_exposed_infected_error_area_chart") =>
          frame.treated = args.data /\ frame.df = args.data

\* A table with a non-positive cell under a column the helper takes for
\* numeric: the 1.0 is written to the temporary table, not to df.
C10_Witness ==
    /\ Done("_treat_negative_values_to_plot")
    /\ \E p \in 1..Len(args.df.data) :
          /\ NonPositive(Cell(args.df, p, "Exposto_upper"))
          /\ "float" \in Range(args.df.columns)
          /\ NonPositive(Cell(args.df, p, "float"))
          /\ Cell(frame.temp, p, "float") = Flt(1)
          /\ Cell(ret, p, "float") = Cell(args.df, p, "float")
          /\ NonPositive(Cell(ret, p, "Exposto_upper"))

==========================================================================
